---- MODULE Spec2Model ----
(***************************************************************************)
(* Grease Pencil user-interface panels (bl_ui): the poll() gates, the      *)
(* draw() methods and the class registration of                            *)
(*   release/scripts/startup/bl_ui/space_gpencil_morph_targets.py          *)
(*   scripts/startup/bl_ui/space_grease_pencil_shape_keys.py               *)
(*   scripts/startup/bl_ui/properties_data_gpencil.py                      *)
(*   scripts/startup/bl_ui/properties_material_gpencil.py                  *)
(*                                                                         *)
(* The host hands every poll and draw a context.  Its members (object,     *)
(* gpencil, grease_pencil, material) are read by the panels and never      *)
(* written; the panels' code does not relate one member to another, so     *)
(* each is a variable of its own.  A draw builds a widget list (layout);   *)
(* reading an attribute of None raises, which ends the draw (error).       *)
(* A behaviour is the redraws of one editor (space): the 3D viewport's     *)
(* sidebar, the Properties editor's data tab or its material tab, as the   *)
(* classes' bl_space_type / bl_context place them.  Only the context       *)
(* members and the data that editor's panels read change in it.            *)
(***************************************************************************)
EXTENDS Integers, Sequences, FiniteSets, TLC

\* ------------------------------------------------------------------ bounds
MaxLayers == 2      \* layers of the legacy data-block
MaxTargets == 2     \* morph targets of the legacy data-block
MaxKeys == 2        \* shape keys of a Grease Pencil (v3) data-block
MaxShaders == 10    \* shader_count of the paint palette

VARIABLES
    space,          \* the editor whose panels are polled and drawn
    object,         \* context.object: None or an object
    gpencil,        \* context.gpencil: None or the legacy data-block
    grease_pencil,  \* context.grease_pencil: None or a v3 data-block
    material,       \* context.material: None or a material
    gpd,            \* the legacy Grease Pencil data-block
    gp3,            \* the Grease Pencil (v3) data-block of the v3 object
    gpcolor,        \* the Grease Pencil settings of the material "ma_gp"
    paint,          \* scene.tool_settings.gpencil_paint
    legacy_ob,      \* the legacy object: vertex groups, show_in_front
    active_object,  \* context.active_object: None or an object
    layout,         \* the widgets built by the last draw
    drawn,          \* the class whose draw built layout, or "none"
    error,          \* the last draw raised (read an attribute of None)
    reg             \* per module: how many entries of `classes` are registered

ctx == <<object, gpencil, grease_pencil, material, active_object>>
model == <<gpd, gp3, gpcolor, paint, legacy_ob>>
ui == <<layout, drawn, error>>
vars == <<space, object, gpencil, grease_pencil, material, active_object, gpd, gp3,
          gpcolor, paint, legacy_ob, layout, drawn, error, reg>>

\* ------------------------------------------------------- Python's values
None == "None"
PyBool(b) == IF b THEN "True" ELSE "False"
\* bool(v) of a poll's result: None and False are falsy, a struct is truthy
Truthy(v) == v \notin {None, "False"}
\* a and b
PyAnd(a, b) == IF Truthy(a) THEN b ELSE a
\* a or b
PyOr(a, b) == IF Truthy(a) THEN a ELSE b

\* ------------------------------------------------------ the host's data
\* The objects a context can name: a legacy Grease Pencil object (type
\* 'GPENCIL') and a Grease Pencil v3 object (type 'GREASEPENCIL').
Objects == {"ob_gpencil", "ob_greasepencil"}
\* ob.type
ObjectType(ob) == IF ob = "ob_gpencil" THEN "GPENCIL" ELSE "GREASEPENCIL"
\* ob.data
ObjectData(ob) == IF ob = "ob_gpencil" THEN "gpd" ELSE "gp3"
\* len(block.shape_keys)
ShapeKeyCount(block) ==
    CASE block = "gp3" -> gp3.shape_keys
      \* a second v3 data-block (of an object that is not the context's)
      [] block = "gp3_other" -> 1
      [] OTHER -> 0
Materials == {"ma_plain", "ma_gp"}
\* ma.grease_pencil
MaterialGreasePencil(ma) == IF ma = "ma_gp" THEN "gpcolor" ELSE None
\* gpd.layers.active
ActiveLayer == IF gpd.active = 0 THEN None ELSE "gpl"
\* gpd.morph_targets.active
ActiveMorphTarget == IF gpd.morph_active = 0 THEN None ELSE "gpmt"
\* ob.vertex_groups.active
ActiveVertexGroup == IF legacy_ob.vg_active = 0 THEN None ELSE "vgroup"

\* --------------------------------------------------------------- widgets
\* One item of a layout.  data names the struct a property is read from as
\* <<type, owner, index>>.
Widget(kind, data, name, text, arg, enabled, active) ==
    [kind |-> kind, data |-> data, name |-> name, text |-> text, arg |-> arg,
     enabled |-> enabled, active |-> active]
NoData == <<"", "", 0>>
Prop(data, name, text) == Widget("prop", data, name, text, "", TRUE, TRUE)
PropE(data, name, text, enabled) == Widget("prop", data, name, text, "", enabled, TRUE)
Operator(idname, text, arg) == Widget("operator", NoData, idname, text, arg, TRUE, TRUE)
MenuItem(idname) == Widget("menu", NoData, idname, "", "", TRUE, TRUE)
Popover(panel) == Widget("popover", NoData, panel, "", "", TRUE, TRUE)
Label(text) == Widget("label", NoData, "", text, "", TRUE, TRUE)
Separator == Widget("separator", NoData, "", "", "", TRUE, TRUE)
TemplateList(listtype, data, name) ==
    Widget("template_list", data, name, listtype, "", TRUE, TRUE)
TemplateID(data, name) == Widget("template_ID", data, name, "", "", TRUE, TRUE)
Template(kind, data, name, arg) == Widget(kind, data, name, "", arg, TRUE, TRUE)

Grid == <<"GreasePencilGrid", "gpd", 0>>
Ma(ma) == <<"Material", ma, 0>>
GPD == <<"GreasePencil", "gpd", 0>>
GPL == <<"GPencilLayer", "gpd", 0>>
GPMT == <<"GPencilMorphTarget", "gpd", 0>>
GPColor == <<"MaterialGPencilStyle", "ma_gp", 0>>
Paint == <<"GpPaint", "scene", 0>>
MorphTarget(i) == <<"GPencilMorphTarget", "gpd", i>>
ShapeKey(block, i) == <<"GreasePencilShapeKey", block, i>>

\* no layout built: no items, ui_units_x not set (0)
NoLayout == [ui_units_x |-> 0, items |-> <<>>]

RECURSIVE Concat(_)
Concat(seqs) == IF seqs = <<>> THEN <<>> ELSE Head(seqs) \o Concat(Tail(seqs))
If(c, items) == IF c THEN items ELSE <<>>

\* what a draw method leaves when it reads an attribute of None: Python
\* raises AttributeError and no layout is built
AttributeError == <<Widget("raise", NoData, "AttributeError", "", "", TRUE, TRUE)>>


\* ---------------------------------------------------------- registration
Modules == {"space_gpencil_morph_targets", "space_grease_pencil_shape_keys",
            "properties_data_gpencil", "properties_material_gpencil"}
\* space_gpencil_morph_targets.classes
MorphTargetsClasses == <<"GPENCIL_PT_MorphTargetsNPanel">>
\* space_grease_pencil_shape_keys.classes
ShapeKeysClasses == <<"GREASE_PENCIL_PT_ShapeKeysNPanel">>
\* the tuple with the Canvas panel ahead of its parent, Viewport Display
DataClasses_canvas_first == <<
    "DATA_PT_context_gpencil",
    "DATA_PT_gpencil_layers",
    "DATA_PT_gpencil_onion_skinning",
    "DATA_PT_gpencil_onion_skinning_custom_colors",
    "DATA_PT_gpencil_onion_skinning_display",
    "DATA_PT_gpencil_layer_masks",
    "DATA_PT_gpencil_layer_default_render",
    "DATA_PT_gpencil_layer_transform",
    "DATA_PT_gpencil_layer_adjustments",
    "DATA_PT_gpencil_layer_relations",
    "DATA_PT_gpencil_layer_display",
    "DATA_PT_gpencil_vertex_groups",
    "DATA_PT_gpencil_morph_targets",
    "DATA_PT_gpencil_strokes",
    "DATA_PT_gpencil_canvas",
    "DATA_PT_gpencil_display",
    "DATA_PT_custom_props_gpencil",
    "GPENCIL_UL_vgroups",
    "GPENCIL_MT_layer_context_menu",
    "GPENCIL_MT_gpencil_vertex_group",
    "DATA_MT_morph_targets_context_menu" >>

\* properties_data_gpencil.classes
DataClasses == <<
    "DATA_PT_context_gpencil",
    "DATA_PT_gpencil_layers",
    "DATA_PT_gpencil_onion_skinning",
    "DATA_PT_gpencil_onion_skinning_custom_colors",
    "DATA_PT_gpencil_onion_skinning_display",
    "DATA_PT_gpencil_layer_masks",
    "DATA_PT_gpencil_layer_default_render",
    "DATA_PT_gpencil_layer_transform",
    "DATA_PT_gpencil_layer_adjustments",
    "DATA_PT_gpencil_layer_relations",
    "DATA_PT_gpencil_layer_display",
    "DATA_PT_gpencil_vertex_groups",
    "DATA_PT_gpencil_morph_targets",
    "DATA_PT_gpencil_strokes",
    "DATA_PT_gpencil_display",
    "DATA_PT_gpencil_canvas",
    "DATA_PT_custom_props_gpencil",
    "GPENCIL_UL_vgroups",
    "GPENCIL_MT_layer_context_menu",
    "GPENCIL_MT_gpencil_vertex_group",
    "DATA_MT_morph_targets_context_menu" >>
\* properties_material_gpencil.classes
MaterialClasses == <<
    "GPENCIL_UL_matslots",
    "GPENCIL_MT_material_context_menu",
    "MATERIAL_PT_gpencil_slots",
    "MATERIAL_PT_gpencil_preview",
    "MATERIAL_PT_gpencil_material_presets",
    "MATERIAL_PT_gpencil_surface",
    "MATERIAL_PT_gpencil_strokecolor",
    "MATERIAL_PT_gpencil_strokecolor_default",
    "MATERIAL_PT_gpencil_strokecolor_palette",
    "MATERIAL_PT_gpencil_fillcolor",
    "MATERIAL_PT_gpencil_fillcolor_ondine",
    "MATERIAL_PT_gpencil_fillcolor_default",
    "MATERIAL_PT_gpencil_fillcolor_palette",
    "MATERIAL_PT_gpencil_mixcolor_palette",
    "MATERIAL_PT_gpencil_settings",
    "MATERIAL_PT_gpencil_animation",
    "MATERIAL_PT_gpencil_custom_props" >>
classes(m) ==
    CASE m = "space_gpencil_morph_targets" -> MorphTargetsClasses
      [] m = "space_grease_pencil_shape_keys" -> ShapeKeysClasses
      [] m = "properties_data_gpencil" -> DataClasses
      [] OTHER -> MaterialClasses
AllClasses == UNION {{classes(m)[i] : i \in 1..Len(classes(m))} : m \in Modules}

\* the class attribute bl_parent_id ("" when the class declares none)
bl_parent_id(cls) ==
    CASE cls \in {"DATA_PT_gpencil_layer_masks", "DATA_PT_gpencil_layer_default_render",
                  "DATA_PT_gpencil_layer_transform", "DATA_PT_gpencil_layer_adjustments",
                  "DATA_PT_gpencil_layer_relations", "DATA_PT_gpencil_layer_display"}
            -> "DATA_PT_gpencil_layers"
      [] cls \in {"DATA_PT_gpencil_onion_skinning_custom_colors",
                  "DATA_PT_gpencil_onion_skinning_display"}
            -> "DATA_PT_gpencil_onion_skinning"
      [] cls = "DATA_PT_gpencil_canvas" -> "DATA_PT_gpencil_display"
      [] cls \in {"MATERIAL_PT_gpencil_strokecolor", "MATERIAL_PT_gpencil_fillcolor"}
            -> "MATERIAL_PT_gpencil_surface"
      [] cls = "MATERIAL_PT_gpencil_strokecolor_default" -> "MATERIAL_PT_gpencil_strokecolor"
      [] cls \in {"MATERIAL_PT_gpencil_fillcolor_ondine", "MATERIAL_PT_gpencil_fillcolor_default"}
            -> "MATERIAL_PT_gpencil_fillcolor"
      [] OTHER -> ""
\* the identifier a class registers under: bl_idname, else the class name
bl_idname(cls) ==
    IF cls = "GPENCIL_PT_MorphTargetsNPanel" THEN "GPENCIL_PT_MorphTargetsPanel" ELSE cls

\* the classes of module m registered so far
Registered == UNION {{classes(m)[i] : i \in 1..reg[m]} : m \in Modules}

\* for cls in classes: register_class(cls), one class per step
register_class(m) ==
    /\ reg[m] < Len(classes(m))
    /\ reg' = [reg EXCEPT ![m] = reg[m] + 1]
    /\ UNCHANGED <<space, ctx, model, ui>>

\* ------------------------------------------------------------------ polls
\* a poll that forgets the count: any legacy object shows the panel
GPENCIL_PT_MorphTargetsNPanel_poll_any_count ==
    IF object = None \/ ObjectType(object) # "GPENCIL"
    THEN "False"
    ELSE PyBool(Len(gpd.morph_targets) >= 0)

\* GPENCIL_PT_MorphTargetsNPanel.poll
GPENCIL_PT_MorphTargetsNPanel_poll ==
    IF object = None \/ ObjectType(object) # "GPENCIL"
    THEN "False"
    ELSE PyBool(Len(gpd.morph_targets) > 0)

\* a poll that forgets the count: any Grease Pencil object shows the panel
GREASE_PENCIL_PT_ShapeKeysNPanel_poll_any_count ==
    IF object = None \/ ObjectType(object) # "GREASEPENCIL"
    THEN "False"
    ELSE PyBool(ShapeKeyCount(ObjectData(object)) >= 0)

\* GREASE_PENCIL_PT_ShapeKeysNPanel.poll
GREASE_PENCIL_PT_ShapeKeysNPanel_poll ==
    IF object = None \/ ObjectType(object) # "GREASEPENCIL"
    THEN "False"
    ELSE PyBool(ShapeKeyCount(ObjectData(object)) > 0)

\* DataButtonsPanel.poll: return context.gpencil
DataButtonsPanel_poll == gpencil

\* a poll that forgets the object type: return ob
ObjectButtonsPanel_poll_any_type == object

\* ObjectButtonsPanel.poll: return ob and ob.type == 'GPENCIL'
ObjectButtonsPanel_poll ==
    PyAnd(object, PyBool(object # None /\ ObjectType(object) = "GPENCIL"))

\* a poll that forgets the data-block: return the active layer
LayerDataButtonsPanel_poll_no_gpencil == ActiveLayer

\* a poll that forgets the active layer: return gpencil
LayerDataButtonsPanel_poll_no_active == gpencil

\* LayerDataButtonsPanel.poll: return gpencil and gpencil.layers.active
LayerDataButtonsPanel_poll == PyAnd(gpencil, ActiveLayer)

\* GPMaterialButtonsPanel.poll: return ma and ma.grease_pencil
GPMaterialButtonsPanel_poll == PyAnd(material, MaterialGreasePencil(material))

\* a poll that forgets the object: return found_material
MATERIAL_PT_gpencil_slots_poll_material_only ==
    PyAnd(material, MaterialGreasePencil(material))

\* MATERIAL_PT_gpencil_slots.poll
MATERIAL_PT_gpencil_slots_poll ==
    LET found_material == PyAnd(material, MaterialGreasePencil(material))
        found_object ==
            PyAnd(object, PyBool(object # None /\ ObjectType(object) = "GREASEPENCIL"))
    IN  PyOr(found_material, found_object)

\* an Ondine Render poll that forgets the fill style
MATERIAL_PT_gpencil_fillcolor_ondine_poll_any_style ==
    IF material = None \/ MaterialGreasePencil(material) = None
    THEN "False"
    ELSE "True"

\* MATERIAL_PT_gpencil_fillcolor_ondine.poll
MATERIAL_PT_gpencil_fillcolor_ondine_poll ==
    IF material = None \/ MaterialGreasePencil(material) = None
    THEN "False"
    ELSE PyBool(gpcolor.fill_style = "GRADIENT")


\* ------------------------------------------------- draw: the two N-panels
\* sorted(mt_list, key=lambda el: el.order_nr): the indices of
\* gpd.morph_targets in ascending order_nr; Python's sort is stable
\* a sort that puts a target ahead of the earlier ones of equal order_nr
RECURSIVE SortedByOrderNr_unstable(_, _)
SortedByOrderNr_unstable(targets, n) ==
    IF n = 0 THEN <<>>
    ELSE LET s == SortedByOrderNr_unstable(targets, n - 1)
             k == Cardinality({j \in 1..Len(s) : targets[s[j]] < targets[n]})
         IN  SubSeq(s, 1, k) \o <<n>> \o SubSeq(s, k + 1, Len(s))

RECURSIVE SortedByOrderNr(_, _)
SortedByOrderNr(targets, n) ==
    IF n = 0 THEN <<>>
    ELSE LET s == SortedByOrderNr(targets, n - 1)
             k == Cardinality({j \in 1..Len(s) : targets[s[j]] <= targets[n]})
         IN  SubSeq(s, 1, k) \o <<n>> \o SubSeq(s, k + 1, Len(s))

\* the rows of one morph target: the value slider and the mute toggle
MorphTargetRow(i) == << Prop(MorphTarget(i), "value", "name"),
                        Prop(MorphTarget(i), "mute", "") >>

\* GPENCIL_PT_MorphTargetsNPanel.draw reads context.object.data.morph_targets
GPENCIL_PT_MorphTargetsNPanel_draw ==
    IF object = None \/ ObjectData(object) # "gpd" THEN AttributeError ELSE
    LET order == SortedByOrderNr(gpd.morph_targets, Len(gpd.morph_targets))
    IN  Concat([i \in 1..Len(order) |-> MorphTargetRow(order[i])]) \o <<Separator>>

\* the rows of one shape key: the value slider and the mute toggle
ShapeKeyRow(block, i) == << Prop(ShapeKey(block, i), "value", "name"),
                            Prop(ShapeKey(block, i), "mute", "") >>

\* GREASE_PENCIL_PT_ShapeKeysNPanel.draw reads context.grease_pencil.shape_keys
GREASE_PENCIL_PT_ShapeKeysNPanel_draw ==
    IF grease_pencil = None THEN AttributeError ELSE
    Concat([i \in 1..ShapeKeyCount(grease_pencil) |-> ShapeKeyRow(grease_pencil, i)])
        \o <<Separator>>

\* ------------------------------------------ draw: properties_data_gpencil
\* DATA_PT_context_gpencil.draw
DATA_PT_context_gpencil_draw ==
    IF object # None
    THEN <<TemplateID(<<"Object", object, 0>>, "data")>>
    ELSE <<TemplateID(<<"SpaceProperties", "space_data", 0>>, "pin_id")>>

\* GPENCIL_MT_layer_context_menu.draw reads context.object.data.layers.active
\* and hands the active layer to layout.prop
GPENCIL_MT_layer_context_menu_draw ==
    IF object = None \/ ObjectData(object) # "gpd" \/ ActiveLayer = None
    THEN AttributeError ELSE
    << Operator("gpencil.layer_duplicate", "Duplicate", "mode=ALL"),
       Operator("gpencil.layer_duplicate", "Duplicate Empty Keyframes", "mode=EMPTY"),
       Separator,
       Operator("gpencil.reveal", "Show All", ""),
       Operator("gpencil.hide", "Hide Others", "unselected=True"),
       Separator,
       Operator("gpencil.lock_all", "Lock All", ""),
       Operator("gpencil.unlock_all", "Unlock All", ""),
       Prop(GPD, "use_autolock_layers", "Autolock Inactive Layers"),
       Prop(GPL, "lock_material", ""),
       Separator,
       Operator("gpencil.layer_merge", "Merge Down", "mode=ACTIVE"),
       Operator("gpencil.layer_merge", "Merge All", "mode=ALL"),
       Separator,
       Operator("gpencil.layer_duplicate_object", "Copy Layer to Selected",
                "only_active=True"),
       Operator("gpencil.layer_duplicate_object", "Copy All Layers to Selected",
                "only_active=False") >>

\* a draw_layers that offers move and isolate for a single layer too
draw_layers_single_layer_moves ==
    LET gpl == ActiveLayer
        wet == gpd.stroke_dryness = 0
    IN  Concat(<<
        << TemplateList("GPENCIL_UL_layer", GPD, "layers"),
           Operator("gpencil.layer_add", "", ""),
           Operator("gpencil.layer_remove", "", ""),
           Separator >>,
        If(gpl # None, <<MenuItem("GPENCIL_MT_layer_context_menu")>>),
        If(gpl # None,
           << Separator,
              Operator("gpencil.layer_move", "", "type=UP"),
              Operator("gpencil.layer_move", "", "type=DOWN"),
              Separator,
              Operator("gpencil.layer_isolate", "", "affect_visibility=True"),
              Operator("gpencil.layer_isolate", "", "affect_visibility=False") >>),
        If(gpl # None /\ ~gpd.watercolor,
           << Prop(GPL, "blend_mode", "Blend") >>),
        If(gpl # None /\ ~gpd.watercolor,
           << Prop(GPL, "opacity", "Opacity"),
              Prop(GPL, "use_lights", "") >>),
        If(gpl # None /\ gpd.watercolor,
           << Label(""),
              Prop(GPL, "clear_underlying", ""),
              Prop(GPL, "mix_with_underlying", ""),
              Prop(GPL, "limit_to_underlying", ""),
              Prop(GPL, "gouache_style", ""),
              PropE(GPL, "scale_pigment_flow", "", wet),
              PropE(GPL, "is_wetted", "", wet),
              Separator,
              Prop(GPL, "opacity", "Opacity"),
              Prop(GPL, "watercolor_alpha_variation", ""),
              Prop(GPL, "watercolor_color_variation", ""),
              PropE(GPL, "stroke_wetness", "", wet),
              PropE(GPL, "stroke_dryness", "", TRUE) >>) >>)

\* a draw_layers that puts stroke_dryness in the column of stroke_wetness
draw_layers_dryness_in_wet_column ==
    LET gpl == ActiveLayer
        wet == gpd.stroke_dryness = 0
    IN  Concat(<<
        << TemplateList("GPENCIL_UL_layer", GPD, "layers"),
           Operator("gpencil.layer_add", "", ""),
           Operator("gpencil.layer_remove", "", ""),
           Separator >>,
        If(gpl # None, <<MenuItem("GPENCIL_MT_layer_context_menu")>>),
        If(gpl # None /\ gpd.layers > 1,
           << Separator,
              Operator("gpencil.layer_move", "", "type=UP"),
              Operator("gpencil.layer_move", "", "type=DOWN"),
              Separator,
              Operator("gpencil.layer_isolate", "", "affect_visibility=True"),
              Operator("gpencil.layer_isolate", "", "affect_visibility=False") >>),
        If(gpl # None /\ ~gpd.watercolor,
           << Prop(GPL, "blend_mode", "Blend") >>),
        If(gpl # None /\ ~gpd.watercolor,
           << Prop(GPL, "opacity", "Opacity"),
              Prop(GPL, "use_lights", "") >>),
        If(gpl # None /\ gpd.watercolor,
           << Label(""),
              Prop(GPL, "clear_underlying", ""),
              Prop(GPL, "mix_with_underlying", ""),
              Prop(GPL, "limit_to_underlying", ""),
              Prop(GPL, "gouache_style", ""),
              PropE(GPL, "scale_pigment_flow", "", wet),
              PropE(GPL, "is_wetted", "", wet),
              Separator,
              Prop(GPL, "opacity", "Opacity"),
              Prop(GPL, "watercolor_alpha_variation", ""),
              Prop(GPL, "watercolor_color_variation", ""),
              PropE(GPL, "stroke_wetness", "", wet),
              PropE(GPL, "stroke_dryness", "", wet) >>) >>)

\* DATA_PT_gpencil_layers.draw_layers
draw_layers ==
    LET gpl == ActiveLayer
        wet == gpd.stroke_dryness = 0
    IN  Concat(<<
        << TemplateList("GPENCIL_UL_layer", GPD, "layers"),
           Operator("gpencil.layer_add", "", ""),
           Operator("gpencil.layer_remove", "", ""),
           Separator >>,
        If(gpl # None, <<MenuItem("GPENCIL_MT_layer_context_menu")>>),
        If(gpl # None /\ gpd.layers > 1,
           << Separator,
              Operator("gpencil.layer_move", "", "type=UP"),
              Operator("gpencil.layer_move", "", "type=DOWN"),
              Separator,
              Operator("gpencil.layer_isolate", "", "affect_visibility=True"),
              Operator("gpencil.layer_isolate", "", "affect_visibility=False") >>),
        If(gpl # None /\ ~gpd.watercolor,
           << Prop(GPL, "blend_mode", "Blend") >>),
        If(gpl # None /\ ~gpd.watercolor,
           << Prop(GPL, "opacity", "Opacity"),
              Prop(GPL, "use_lights", "") >>),
        If(gpl # None /\ gpd.watercolor,
           << Label(""),
              Prop(GPL, "clear_underlying", ""),
              Prop(GPL, "mix_with_underlying", ""),
              Prop(GPL, "limit_to_underlying", ""),
              Prop(GPL, "gouache_style", ""),
              PropE(GPL, "scale_pigment_flow", "", wet),
              PropE(GPL, "is_wetted", "", wet),
              Separator,
              Prop(GPL, "opacity", "Opacity"),
              Prop(GPL, "watercolor_alpha_variation", ""),
              Prop(GPL, "watercolor_color_variation", ""),
              PropE(GPL, "stroke_wetness", "", wet),
              PropE(GPL, "stroke_dryness", "", TRUE) >>) >>)

\* DATA_PT_gpencil_layers.draw
DATA_PT_gpencil_layers_draw ==
    IF gpencil = None \/ gpd.layers = 0
    THEN <<Operator("gpencil.layer_add", "New Layer", "")>>
    ELSE draw_layers

\* DATA_PT_gpencil_layer_default_render.draw reads context.gpencil.layers.active
\* and hands the active layer to layout.prop
DATA_PT_gpencil_layer_default_render_draw ==
    IF gpencil = None \/ ActiveLayer = None THEN AttributeError ELSE
    << Prop(GPL, "blend_mode", ""), Prop(GPL, "use_lights", "") >>

\* the layer sub-panels whose draw is the common mixin's (Masks, Transform,
\* Adjustments, Relations, Display): the draw works on the active layer
LayerMixinPanels == {"DATA_PT_gpencil_layer_masks", "DATA_PT_gpencil_layer_transform",
                     "DATA_PT_gpencil_layer_adjustments",
                     "DATA_PT_gpencil_layer_relations", "DATA_PT_gpencil_layer_display"}
LayerPanels == LayerMixinPanels \cup {"DATA_PT_gpencil_layer_default_render"}
LayerMixin_draw(cls) == <<Template("inherited", GPL, cls, "")>>

\* an onion skinning draw whose second branch tests 'SELECTED' instead of
\* 'RELATIVE'
DATA_PT_gpencil_onion_skinning_draw_selected_branch ==
    IF gpencil = None THEN AttributeError ELSE
    << Prop(GPD, "onion_mode", ""),
       Prop(GPD, "onion_factor", "Opacity"),
       Prop(GPD, "onion_keyframe_type", "") >>
    \o (IF gpd.onion_mode = "ABSOLUTE"
        THEN << Prop(GPD, "ghost_before_range", "Frames Before"),
                Prop(GPD, "ghost_after_range", "Frames After") >>
        ELSE IF gpd.onion_mode = "SELECTED"
        THEN << Prop(GPD, "ghost_before_range", "Keyframes Before"),
                Prop(GPD, "ghost_after_range", "Keyframes After") >>
        ELSE <<>>)

\* DATA_PT_gpencil_onion_skinning.draw reads context.gpencil.onion_mode
DATA_PT_gpencil_onion_skinning_draw ==
    IF gpencil = None THEN AttributeError ELSE
    << Prop(GPD, "onion_mode", ""),
       Prop(GPD, "onion_factor", "Opacity"),
       Prop(GPD, "onion_keyframe_type", "") >>
    \o (IF gpd.onion_mode = "ABSOLUTE"
        THEN << Prop(GPD, "ghost_before_range", "Frames Before"),
                Prop(GPD, "ghost_after_range", "Frames After") >>
        ELSE IF gpd.onion_mode = "RELATIVE"
        THEN << Prop(GPD, "ghost_before_range", "Keyframes Before"),
                Prop(GPD, "ghost_after_range", "Keyframes After") >>
        ELSE <<>>)

\* DATA_PT_gpencil_onion_skinning_custom_colors.draw_header hands context.gpencil
\* to layout.prop
DATA_PT_gpencil_onion_skinning_custom_colors_draw_header ==
    IF gpencil = None THEN AttributeError ELSE
    << Prop(GPD, "use_ghost_custom_colors", "") >>

\* DATA_PT_gpencil_onion_skinning_custom_colors.draw reads context.gpencil.users
DATA_PT_gpencil_onion_skinning_custom_colors_draw ==
    IF gpencil = None THEN AttributeError ELSE
    LET enabled == gpd.users <= 1 /\ gpd.use_ghost_custom_colors
    IN  << PropE(GPD, "before_color", "Before", enabled),
           PropE(GPD, "after_color", "After", enabled) >>

\* DATA_PT_gpencil_onion_skinning_display.draw reads context.gpencil.users
DATA_PT_gpencil_onion_skinning_display_draw ==
    IF gpencil = None THEN AttributeError ELSE
    LET enabled == gpd.users <= 1
    IN  << PropE(GPD, "use_ghosts_always", "View in Render", enabled),
           PropE(GPD, "use_onion_fade", "Fade", enabled),
           Widget("prop", GPD, "use_onion_loop", "Show Start Frame", "", enabled,
                  gpd.onion_mode \in {"RELATIVE", "SELECTED"}) >>


\* GPENCIL_MT_gpencil_vertex_group.draw reads context.active_object.vertex_groups
GPENCIL_MT_gpencil_vertex_group_draw ==
    IF active_object = None \/ active_object # "ob_gpencil" THEN AttributeError ELSE
    << Operator("object.vertex_group_add", "", "") >>
    \o If(ActiveVertexGroup # None,
          << Separator,
             Operator("gpencil.vertex_group_assign", "Assign to Active Group", ""),
             Operator("gpencil.vertex_group_remove_from", "Remove from Active Group", ""),
             Separator,
             Widget("operator_menu_enum", NoData, "object.vertex_group_set_active",
                    "Set Active Group", "group", TRUE, TRUE),
             Operator("object.vertex_group_remove", "Remove Active Group", "all=False"),
             Operator("object.vertex_group_remove", "Remove All Groups", "all=True"),
             Separator,
             Operator("gpencil.vertex_group_select", "Select Points", ""),
             Operator("gpencil.vertex_group_deselect", "Deselect Points", "") >>)

LayoutTypes == {"DEFAULT", "COMPACT", "GRID"}

\* GPENCIL_UL_vgroups.draw_item for item i of ob.vertex_groups
GPENCIL_UL_vgroups_draw_item(layout_type, i) ==
    IF layout_type \in {"DEFAULT", "COMPACT"}
    THEN << Prop(<<"VertexGroup", "ob_gpencil", i>>, "name", ""),
            Prop(<<"VertexGroup", "ob_gpencil", i>>, "lock_weight", "") >>
    ELSE IF layout_type = "GRID"
    THEN << Label("") >>
    ELSE <<>>

\* DATA_PT_gpencil_vertex_groups.draw reads context.object.vertex_groups
\* rows of the vertex group list
VertexGroupRows == IF ActiveVertexGroup # None THEN 4 ELSE 2

DATA_PT_gpencil_vertex_groups_draw ==
    IF object = None \/ object # "ob_gpencil" THEN AttributeError ELSE
    Concat(<<
        << Widget("template_list", <<"Object", "ob_gpencil", 0>>, "vertex_groups",
                  "GPENCIL_UL_vgroups",
                  IF VertexGroupRows = 4 THEN "rows=4" ELSE "rows=2", TRUE, TRUE),
           Operator("object.vertex_group_add", "", ""),
           Operator("object.vertex_group_remove", "", "all=False") >>,
        If(ActiveVertexGroup # None,
           << Separator,
              Operator("object.vertex_group_move", "", "direction=UP"),
              Operator("object.vertex_group_move", "", "direction=DOWN") >>),
        If(legacy_ob.vertex_groups > 0,
           << Operator("gpencil.vertex_group_assign", "Assign", ""),
              Operator("gpencil.vertex_group_remove_from", "Remove", ""),
              Operator("gpencil.vertex_group_select", "Select", ""),
              Operator("gpencil.vertex_group_deselect", "Deselect", ""),
              Prop(<<"ToolSettings", "scene", 0>>, "vertex_group_weight", "Weight") >>) >>)

\* DATA_MT_morph_targets_context_menu.draw
DATA_MT_morph_targets_context_menu_draw ==
    << Operator("gpencil.morph_target_duplicate", "Duplicate", ""),
       Separator,
       Operator("gpencil.morph_target_remove_all", "Delete All", ""),
       Operator("gpencil.morph_target_apply_all", "Apply All", "") >>

\* a Morph Targets draw whose Finish Edit column copies the Edit column's
\* active test
DATA_PT_gpencil_morph_targets_draw_finish_as_edit ==
    IF gpencil = None THEN AttributeError ELSE
    LET gpmt == ActiveMorphTarget
        editing == gpd.in_morph_edit_mode
    IN  Concat(<<
        << TemplateList("GPENCIL_UL_morph_target", GPD, "morph_targets"),
           Operator("gpencil.morph_target_add", "", ""),
           Operator("gpencil.morph_target_remove", "", "") >>,
        If(gpmt # None,
           << Separator,
              Operator("gpencil.morph_target_move", "", "direction=UP"),
              Operator("gpencil.morph_target_move", "", "direction=DOWN") >>),
        << Separator, MenuItem("DATA_MT_morph_targets_context_menu") >>,
        If(gpmt # None,
           << Widget("operator", NoData, "gpencil.morph_target_edit", "Edit",
                     "", TRUE, ~editing),
              Widget("operator", NoData, "gpencil.morph_target_edit_finish", "Finish Edit",
                     IF editing THEN "depress=True" ELSE "depress=False", TRUE, ~editing) >>),
        If(gpmt # None /\ editing,
           << Label("Note: do not add or remove points while editing.") >>),
        If(gpmt # None,
           << Separator,
              Prop(GPMT, "value", ""),
              Prop(GPMT, "slider_min", "Range Min"),
              Prop(GPMT, "slider_max", "Max") >>),
        If(gpmt # None /\ gpd.morphed_layer_order,
           << Separator,
              Prop(GPMT, "layer_order_compare", ""),
              Prop(GPMT, "layer_order_value", " ") >>) >>)

\* DATA_PT_gpencil_morph_targets.draw reads context.gpencil.morph_targets.active
DATA_PT_gpencil_morph_targets_draw ==
    IF gpencil = None THEN AttributeError ELSE
    LET gpmt == ActiveMorphTarget
        editing == gpd.in_morph_edit_mode
    IN  Concat(<<
        << TemplateList("GPENCIL_UL_morph_target", GPD, "morph_targets"),
           Operator("gpencil.morph_target_add", "", ""),
           Operator("gpencil.morph_target_remove", "", "") >>,
        If(gpmt # None,
           << Separator,
              Operator("gpencil.morph_target_move", "", "direction=UP"),
              Operator("gpencil.morph_target_move", "", "direction=DOWN") >>),
        << Separator, MenuItem("DATA_MT_morph_targets_context_menu") >>,
        If(gpmt # None,
           << Widget("operator", NoData, "gpencil.morph_target_edit", "Edit",
                     "", TRUE, ~editing),
              Widget("operator", NoData, "gpencil.morph_target_edit_finish", "Finish Edit",
                     IF editing THEN "depress=True" ELSE "depress=False", TRUE, editing) >>),
        If(gpmt # None /\ editing,
           << Label("Note: do not add or remove points while editing.") >>),
        If(gpmt # None,
           << Separator,
              Prop(GPMT, "value", ""),
              Prop(GPMT, "slider_min", "Range Min"),
              Prop(GPMT, "slider_max", "Max") >>),
        If(gpmt # None /\ gpd.morphed_layer_order,
           << Separator,
              Prop(GPMT, "layer_order_compare", ""),
              Prop(GPMT, "layer_order_value", " ") >>) >>)

\* DATA_PT_gpencil_strokes.draw reads context.gpencil.stroke_thickness_space
DATA_PT_gpencil_strokes_draw ==
    IF gpencil = None THEN AttributeError ELSE
    << PropE(GPD, "stroke_depth_order", "",
             IF object # None
             THEN (IF object = "ob_gpencil" THEN ~legacy_ob.show_in_front ELSE TRUE)
             ELSE TRUE),
       Prop(GPD, "stroke_thickness_space", ""),
       Widget("prop", GPD, "pixel_factor", "Thickness Scale", "", TRUE,
              gpd.stroke_thickness_space = "WORLDSPACE"),
       Prop(GPD, "edit_curve_resolution", "") >>

\* DATA_PT_gpencil_display.draw hands context.gpencil to layout.prop
DATA_PT_gpencil_display_draw ==
    IF gpencil = None THEN AttributeError ELSE
    << Prop(GPD, "edit_line_color", "Edit Line Color") >>

\* DATA_PT_gpencil_canvas.draw reads context.gpencil.grid
DATA_PT_gpencil_canvas_draw ==
    IF gpencil = None THEN AttributeError ELSE
    << Prop(Grid, "color", "Color"),
       Prop(Grid, "scale", "Scale"),
       Prop(Grid, "offset", ""),
       Prop(Grid, "lines", "Subdivisions") >>

\* DATA_PT_custom_props_gpencil: PropertyPanel's draw on _context_path
DATA_PT_custom_props_gpencil_draw == <<Template("inherited", GPD, "object.data", "")>>


\* -------------------------------------- draw: properties_material_gpencil
\* GPENCIL_MT_material_context_menu.draw
GPENCIL_MT_material_context_menu_draw ==
    << Operator("grease_pencil.material_reveal", "Show All", ""),
       Operator("grease_pencil.material_hide", "Hide Others", "invert=True"),
       Separator,
       Operator("grease_pencil.material_lock_all", "Lock All", ""),
       Operator("grease_pencil.material_unlock_all", "Unlock All", ""),
       Operator("grease_pencil.material_lock_unselected", "Lock Unselected", ""),
       Operator("grease_pencil.material_lock_unused", "Lock Unused", ""),
       Separator,
       Operator("grease_pencil.material_copy_to_object", "Copy Material to Selected",
                "only_active=True"),
       Operator("grease_pencil.material_copy_to_object", "Copy All Materials to Selected",
                "only_active=False"),
       Operator("object.material_slot_remove_unused", "", "") >>

\* GPENCIL_UL_matslots.draw_item for a slot whose material is ma (or None)
GPENCIL_UL_matslots_draw_item(layout_type, ma) ==
    IF layout_type \in {"DEFAULT", "COMPACT"}
    THEN <<Label("")>>
         \o If(ma # None /\ MaterialGreasePencil(ma) # None,
               << PropE(Ma(ma), "name", "", ~gpcolor.lock),
                  Widget("prop", GPColor, "ghost", "",
                         IF gpcolor.ghost THEN "icon=ONIONSKIN_OFF" ELSE "icon=ONIONSKIN_ON",
                         TRUE, TRUE),
                  Prop(GPColor, "hide", ""),
                  Prop(GPColor, "lock", "") >>)
    ELSE IF layout_type = "GRID"
    THEN <<Label("")>>
    ELSE <<>>

\* MATERIAL_PT_gpencil_slots: GreasePencilMaterialsPanel's draw
MATERIAL_PT_gpencil_slots_draw ==
    <<Template("inherited", NoData, "GreasePencilMaterialsPanel", "")>>

\* MATERIAL_PT_gpencil_surface.draw
MATERIAL_PT_gpencil_surface_draw ==
    IF material = None \/ MaterialGreasePencil(material) = None
    THEN <<>>
    ELSE <<Prop(GPColor, "stroke_wetness", "")>>

\* MATERIAL_PT_gpencil_surface.draw_header_preset
MATERIAL_PT_gpencil_surface_draw_header_preset ==
    <<Template("inherited", NoData, "MATERIAL_PT_gpencil_material_presets", "")>>

\* GPMaterialColorPalettePanel.bl_ui_units_x
bl_ui_units_x == 10

\* a width that compares shader_count with > 10 instead of >= 10
set_shaded_color_palette_width_above_ten(units) ==
    IF ~paint.palette THEN units
    ELSE IF paint.shader_count = 0 THEN units
    ELSE IF paint.shader_count > 10 THEN paint.shader_count
    ELSE 2 * paint.shader_count

\* GPMaterialColorPalettePanel.set_shaded_color_palette_width: layout.ui_units_x
\* after the call, given it before
set_shaded_color_palette_width(units) ==
    IF ~paint.palette THEN units
    ELSE IF paint.shader_count = 0 THEN units
    ELSE IF paint.shader_count >= 10 THEN paint.shader_count
    ELSE 2 * paint.shader_count

\* MATERIAL_PT_gpencil_strokecolor_palette.draw, _fillcolor_palette.draw and
\* _mixcolor_palette.draw read context.material.grease_pencil
ColorPalettePanel_draw(target_property) ==
    IF material = None THEN AttributeError ELSE
    <<TemplateID(Paint, "palette")>>
    \o If(paint.palette,
          <<Template("template_palette", Paint, "palette", target_property)>>)

PalettePanels == {"MATERIAL_PT_gpencil_strokecolor_palette",
                  "MATERIAL_PT_gpencil_fillcolor_palette",
                  "MATERIAL_PT_gpencil_mixcolor_palette"}
PaletteTarget(cls) ==
    CASE cls = "MATERIAL_PT_gpencil_strokecolor_palette" -> "color"
      [] cls = "MATERIAL_PT_gpencil_fillcolor_palette" -> "fill_color"
      [] OTHER -> "mix_color"

\* MATERIAL_PT_gpencil_strokecolor.draw_header
MATERIAL_PT_gpencil_strokecolor_draw_header ==
    IF material # None /\ MaterialGreasePencil(material) # None
    THEN <<Prop(GPColor, "show_stroke", "")>>
    ELSE <<>>

\* MATERIAL_PT_gpencil_strokecolor.draw
MATERIAL_PT_gpencil_strokecolor_draw ==
    IF material # None /\ MaterialGreasePencil(material) # None
    THEN << Prop(GPColor, "mode", ""),
            Prop(GPColor, "stroke_style", "Style"),
            Popover("MATERIAL_PT_gpencil_strokecolor_palette"),
            Prop(GPColor, "color", ""),
            Template("prop_decorator", GPColor, "color", "") >>
         \o If(gpcolor.stroke_style = "TEXTURE",
               << Separator,
                  TemplateID(GPColor, "stroke_image"),
                  PropE(GPColor, "mix_stroke_factor", "Blend", ~gpcolor.lock),
                  PropE(GPColor, "texture_density", "", ~gpcolor.lock),
                  Widget("separator", NoData, "", "", "", ~gpcolor.lock, TRUE),
                  PropE(GPColor, "alignment_rotation", "Angle", ~gpcolor.lock),
                  PropE(GPColor, "texture_angle_variation", "", ~gpcolor.lock),
                  PropE(GPColor, "smooth_texture", "", ~gpcolor.lock) >>)
    ELSE <<>>

\* MATERIAL_PT_gpencil_strokecolor_default.draw
MATERIAL_PT_gpencil_strokecolor_default_draw ==
    IF material = None \/ MaterialGreasePencil(material) = None
    THEN <<>>
    ELSE LET e == ~gpcolor.lock
         IN  Concat(<<
             If(gpcolor.mode \in {"DOTS", "BOX"}, <<PropE(GPColor, "alignment_mode", "", e)>>),
             If(gpcolor.stroke_style = "TEXTURE" /\ gpcolor.mode = "LINE",
                <<PropE(GPColor, "pixel_size", "UV Factor", e)>>),
             <<PropE(GPColor, "use_stroke_holdout", "", e)>>,
             If(gpcolor.mode = "LINE", <<PropE(GPColor, "use_overlap_strokes", "", e)>>) >>)

\* MATERIAL_PT_gpencil_fillcolor.draw_header and .draw read
\* context.material.grease_pencil and use the settings unguarded
MATERIAL_PT_gpencil_fillcolor_draw_header ==
    IF material = None \/ MaterialGreasePencil(material) = None THEN AttributeError ELSE
    <<Prop(GPColor, "show_fill", "")>>

\* a Fill draw whose base colour test names 'TEXTURE' instead of 'SOLID'
MATERIAL_PT_gpencil_fillcolor_draw_texture_base ==
    IF material = None \/ MaterialGreasePencil(material) = None THEN AttributeError ELSE
    Concat(<<
        <<Prop(GPColor, "fill_style", "Style")>>,
        If(gpcolor.fill_style = "GRADIENT", <<Prop(GPColor, "gradient_type", "")>>),
        If(gpcolor.fill_style = "GRADIENT" \/ gpcolor.fill_style = "TEXTURE",
           << Popover("MATERIAL_PT_gpencil_fillcolor_palette"),
              Prop(GPColor, "fill_color", ""),
              Template("prop_decorator", GPColor, "fill_color", "") >>),
        If(gpcolor.fill_style = "GRADIENT",
           << Popover("MATERIAL_PT_gpencil_mixcolor_palette"),
              Prop(GPColor, "mix_color", ""),
              Template("prop_decorator", GPColor, "mix_color", ""),
              Prop(GPColor, "mix_factor", "Blend"),
              Prop(GPColor, "flip", "Flip Colors") >>) >>)

MATERIAL_PT_gpencil_fillcolor_draw ==
    IF material = None \/ MaterialGreasePencil(material) = None THEN AttributeError ELSE
    Concat(<<
        <<Prop(GPColor, "fill_style", "Style")>>,
        If(gpcolor.fill_style = "GRADIENT", <<Prop(GPColor, "gradient_type", "")>>),
        If(gpcolor.fill_style = "GRADIENT" \/ gpcolor.fill_style = "SOLID",
           << Popover("MATERIAL_PT_gpencil_fillcolor_palette"),
              Prop(GPColor, "fill_color", ""),
              Template("prop_decorator", GPColor, "fill_color", "") >>),
        If(gpcolor.fill_style = "GRADIENT",
           << Popover("MATERIAL_PT_gpencil_mixcolor_palette"),
              Prop(GPColor, "mix_color", ""),
              Template("prop_decorator", GPColor, "mix_color", ""),
              Prop(GPColor, "mix_factor", "Blend"),
              Prop(GPColor, "flip", "Flip Colors") >>) >>)

\* MATERIAL_PT_gpencil_fillcolor_ondine.draw reads
\* context.material.grease_pencil.lock
MATERIAL_PT_gpencil_fillcolor_ondine_draw ==
    IF material = None \/ MaterialGreasePencil(material) = None THEN AttributeError ELSE
    LET e == ~gpcolor.lock
    IN  IF gpcolor.fill_style = "GRADIENT"
        THEN IF gpcolor.gradient_type = "LINEAR"
             THEN << PropE(GPColor, "texture_angle", "Rotation", e),
                     Widget("prop", GPColor, "ondine_gradient_offset", "Base Offset",
                            "index=0", e, TRUE),
                     Widget("prop", GPColor, "ondine_gradient_offset", "Secondary",
                            "index=1", e, TRUE) >>
             ELSE << PropE(GPColor, "ondine_gradient_offset", "Offset", e),
                     PropE(GPColor, "ondine_gradient_scale", "Scale", e) >>
        ELSE <<>>

\* MATERIAL_PT_gpencil_fillcolor_default.draw
MATERIAL_PT_gpencil_fillcolor_default_draw ==
    IF material = None \/ MaterialGreasePencil(material) = None
    THEN <<>>
    ELSE LET e == ~gpcolor.lock
         IN  IF gpcolor.fill_style = "GRADIENT"
             THEN << PropE(GPColor, "texture_offset", "Location", e),
                     PropE(GPColor, "texture_angle", "Rotation",
                           e /\ gpcolor.gradient_type = "LINEAR"),
                     PropE(GPColor, "texture_scale", "Scale", e),
                     PropE(GPColor, "use_fill_holdout", "", e) >>
             ELSE IF gpcolor.fill_style = "SOLID"
             THEN << PropE(GPColor, "use_fill_holdout", "", e) >>
             ELSE IF gpcolor.fill_style = "TEXTURE"
             THEN << Widget("popover", NoData, "MATERIAL_PT_gpencil_fillcolor_palette",
                            "", "", e, TRUE),
                     PropE(GPColor, "fill_color", "", e),
                     Widget("prop_decorator", GPColor, "fill_color", "", "", e, TRUE),
                     PropE(GPColor, "use_fill_holdout", "", e),
                     Widget("separator", NoData, "", "", "", e, TRUE),
                     Widget("template_ID", GPColor, "fill_image", "", "", e, TRUE),
                     PropE(GPColor, "mix_factor", "Blend", e),
                     PropE(GPColor, "texture_offset", "Location", e),
                     PropE(GPColor, "texture_angle", "Rotation", e),
                     PropE(GPColor, "texture_scale", "Scale", e),
                     PropE(GPColor, "texture_clamp", "Clip Image", e) >>
             ELSE <<>>

\* MATERIAL_PT_gpencil_preview.draw
MATERIAL_PT_gpencil_preview_draw ==
    <<Template("template_preview", Ma(material), "", "")>>

\* MATERIAL_PT_gpencil_settings.draw reads context.material.grease_pencil and
\* hands the settings to layout.prop
MATERIAL_PT_gpencil_settings_draw ==
    IF material = None \/ MaterialGreasePencil(material) = None THEN AttributeError ELSE
    <<Prop(GPColor, "pass_index", "")>>

\* MATERIAL_PT_gpencil_animation, MATERIAL_PT_gpencil_custom_props and
\* MATERIAL_PT_gpencil_material_presets: the draw of PropertyPanel / PresetPanel
MaterialMixinPanels == {"MATERIAL_PT_gpencil_animation", "MATERIAL_PT_gpencil_custom_props"}
MaterialMixin_draw(cls) == <<Template("inherited", Ma(material), cls, "")>>


\* ---------------------------------------------------------------- actions
\* bl_space_type and bl_context of the panel classes
Spaces == {"VIEW_3D", "PROPERTIES.data", "PROPERTIES.material"}

\* does the layout built last offer this menu, popover or list?
Offers(kind, name) ==
    /\ ~error
    /\ \E i \in 1..Len(layout.items) :
           layout.items[i].kind = kind /\ layout.items[i].name = name
OffersList(listtype) ==
    /\ ~error
    /\ \E i \in 1..Len(layout.items) :
           layout.items[i].kind = "template_list" /\ layout.items[i].text = listtype

\* one run of a draw method: the layout it builds, or the exception
Redraw(cls, units, items) ==
    /\ drawn' = cls
    /\ error' = (items = AttributeError)
    /\ layout' = IF items = AttributeError THEN NoLayout
                                           ELSE [ui_units_x |-> units, items |-> items]
    /\ UNCHANGED <<space, ctx, model, reg>>

\* the poll a panel class inherits (the first base that defines one); a class
\* with none is always pollable
poll(cls) ==
    CASE cls = "GPENCIL_PT_MorphTargetsNPanel" -> GPENCIL_PT_MorphTargetsNPanel_poll
      [] cls = "GREASE_PENCIL_PT_ShapeKeysNPanel" -> GREASE_PENCIL_PT_ShapeKeysNPanel_poll
      [] cls \in {"DATA_PT_context_gpencil", "DATA_PT_gpencil_layers",
                  "DATA_PT_gpencil_onion_skinning",
                  "DATA_PT_gpencil_onion_skinning_custom_colors",
                  "DATA_PT_gpencil_onion_skinning_display",
                  "DATA_PT_gpencil_morph_targets", "DATA_PT_gpencil_strokes",
                  "DATA_PT_gpencil_display", "DATA_PT_gpencil_canvas",
                  "DATA_PT_custom_props_gpencil"} -> DataButtonsPanel_poll
      [] cls = "DATA_PT_gpencil_vertex_groups" -> ObjectButtonsPanel_poll
      [] cls \in LayerPanels -> LayerDataButtonsPanel_poll
      [] cls = "MATERIAL_PT_gpencil_slots" -> MATERIAL_PT_gpencil_slots_poll
      [] cls = "MATERIAL_PT_gpencil_fillcolor_ondine"
            -> MATERIAL_PT_gpencil_fillcolor_ondine_poll
      [] cls \in {"MATERIAL_PT_gpencil_surface", "MATERIAL_PT_gpencil_strokecolor",
                  "MATERIAL_PT_gpencil_strokecolor_default",
                  "MATERIAL_PT_gpencil_fillcolor", "MATERIAL_PT_gpencil_fillcolor_default",
                  "MATERIAL_PT_gpencil_animation", "MATERIAL_PT_gpencil_preview",
                  "MATERIAL_PT_gpencil_custom_props", "MATERIAL_PT_gpencil_settings"}
            -> GPMaterialButtonsPanel_poll
      [] OTHER -> "True"

\* the editor a panel class belongs to: bl_space_type and bl_context
bl_space(cls) ==
    CASE cls \in {"GPENCIL_PT_MorphTargetsNPanel", "GREASE_PENCIL_PT_ShapeKeysNPanel"}
            -> "VIEW_3D"
      [] cls \in {DataClasses[i] : i \in 1..Len(DataClasses)} -> "PROPERTIES.data"
      [] OTHER -> "PROPERTIES.material"

\* the host runs a panel's draw where the class is registered, the editor is
\* the class's and its poll is truthy
Shown(cls) == cls \in Registered /\ space = bl_space(cls) /\ Truthy(poll(cls))

Draw_GPENCIL_PT_MorphTargetsNPanel ==
    /\ Shown("GPENCIL_PT_MorphTargetsNPanel")
    /\ Redraw("GPENCIL_PT_MorphTargetsNPanel", 0,
              GPENCIL_PT_MorphTargetsNPanel_draw)

Draw_GREASE_PENCIL_PT_ShapeKeysNPanel ==
    /\ Shown("GREASE_PENCIL_PT_ShapeKeysNPanel")
    /\ Redraw("GREASE_PENCIL_PT_ShapeKeysNPanel", 0,
              GREASE_PENCIL_PT_ShapeKeysNPanel_draw)

Draw_DATA_PT_context_gpencil ==
    /\ Shown("DATA_PT_context_gpencil")
    /\ Redraw("DATA_PT_context_gpencil", 0, DATA_PT_context_gpencil_draw)

\* a draw that runs the operator instead of offering it: with no layers it
\* adds one
Draw_DATA_PT_gpencil_layers_adding_layer ==
    /\ Shown("DATA_PT_gpencil_layers")
    /\ drawn' = "DATA_PT_gpencil_layers"
    /\ error' = FALSE
    /\ layout' = [ui_units_x |-> 0, items |-> DATA_PT_gpencil_layers_draw]
    /\ gpd' = IF gpd.layers = 0 THEN [gpd EXCEPT !.layers = 1, !.active = 1] ELSE gpd
    /\ UNCHANGED <<space, ctx, gp3, gpcolor, paint, legacy_ob, reg>>

Draw_DATA_PT_gpencil_layers ==
    /\ Shown("DATA_PT_gpencil_layers")
    /\ Redraw("DATA_PT_gpencil_layers", 0, DATA_PT_gpencil_layers_draw)

\* the Layer Specials menu opens from the entry the Layers panel drew
Draw_GPENCIL_MT_layer_context_menu ==
    /\ "GPENCIL_MT_layer_context_menu" \in Registered
    /\ Offers("menu", "GPENCIL_MT_layer_context_menu")
    /\ Redraw("GPENCIL_MT_layer_context_menu", 0,
              GPENCIL_MT_layer_context_menu_draw)

Draw_DATA_PT_gpencil_layer_default_render ==
    /\ Shown("DATA_PT_gpencil_layer_default_render")
    /\ Redraw("DATA_PT_gpencil_layer_default_render", 0,
              DATA_PT_gpencil_layer_default_render_draw)

Draw_LayerMixinPanel ==
    \E cls \in LayerMixinPanels :
        /\ Shown(cls)
        /\ Redraw(cls, 0, LayerMixin_draw(cls))

Draw_DATA_PT_gpencil_onion_skinning ==
    /\ Shown("DATA_PT_gpencil_onion_skinning")
    /\ Redraw("DATA_PT_gpencil_onion_skinning", 0,
              DATA_PT_gpencil_onion_skinning_draw)

DrawHeader_DATA_PT_gpencil_onion_skinning_custom_colors ==
    /\ Shown("DATA_PT_gpencil_onion_skinning_custom_colors")
    /\ Redraw("DATA_PT_gpencil_onion_skinning_custom_colors.draw_header", 0,
              DATA_PT_gpencil_onion_skinning_custom_colors_draw_header)

Draw_DATA_PT_gpencil_onion_skinning_custom_colors ==
    /\ Shown("DATA_PT_gpencil_onion_skinning_custom_colors")
    /\ Redraw("DATA_PT_gpencil_onion_skinning_custom_colors", 0,
              DATA_PT_gpencil_onion_skinning_custom_colors_draw)

Draw_DATA_PT_gpencil_onion_skinning_display ==
    /\ Shown("DATA_PT_gpencil_onion_skinning_display")
    /\ Redraw("DATA_PT_gpencil_onion_skinning_display", 0,
              DATA_PT_gpencil_onion_skinning_display_draw)

\* no layout of these files offers the vertex group menu: the host opens it
\* from its own menus
Draw_GPENCIL_MT_gpencil_vertex_group ==
    /\ "GPENCIL_MT_gpencil_vertex_group" \in Registered
    /\ space = "PROPERTIES.data"
    /\ Redraw("GPENCIL_MT_gpencil_vertex_group", 0,
              GPENCIL_MT_gpencil_vertex_group_draw)

Draw_DATA_PT_gpencil_vertex_groups ==
    /\ Shown("DATA_PT_gpencil_vertex_groups")
    /\ Redraw("DATA_PT_gpencil_vertex_groups", 0,
              DATA_PT_gpencil_vertex_groups_draw)

\* template_list runs draw_item for each item of the list it shows
DrawItem_GPENCIL_UL_vgroups ==
    /\ "GPENCIL_UL_vgroups" \in Registered
    /\ OffersList("GPENCIL_UL_vgroups")
    /\ \E layout_type \in LayoutTypes, i \in 1..legacy_ob.vertex_groups :
           Redraw("GPENCIL_UL_vgroups", 0,
                  GPENCIL_UL_vgroups_draw_item(layout_type, i))

Draw_DATA_PT_gpencil_morph_targets ==
    /\ Shown("DATA_PT_gpencil_morph_targets")
    /\ Redraw("DATA_PT_gpencil_morph_targets", 0,
              DATA_PT_gpencil_morph_targets_draw)

Draw_DATA_MT_morph_targets_context_menu ==
    /\ "DATA_MT_morph_targets_context_menu" \in Registered
    /\ Offers("menu", "DATA_MT_morph_targets_context_menu")
    /\ Redraw("DATA_MT_morph_targets_context_menu", 0,
              DATA_MT_morph_targets_context_menu_draw)

Draw_DATA_PT_gpencil_strokes ==
    /\ Shown("DATA_PT_gpencil_strokes")
    /\ Redraw("DATA_PT_gpencil_strokes", 0,
              DATA_PT_gpencil_strokes_draw)

Draw_DATA_PT_gpencil_display ==
    /\ Shown("DATA_PT_gpencil_display")
    /\ Redraw("DATA_PT_gpencil_display", 0,
              DATA_PT_gpencil_display_draw)

Draw_DATA_PT_gpencil_canvas ==
    /\ Shown("DATA_PT_gpencil_canvas")
    /\ Redraw("DATA_PT_gpencil_canvas", 0,
              DATA_PT_gpencil_canvas_draw)

Draw_DATA_PT_custom_props_gpencil ==
    /\ Shown("DATA_PT_custom_props_gpencil")
    /\ Redraw("DATA_PT_custom_props_gpencil", 0, DATA_PT_custom_props_gpencil_draw)


Draw_MATERIAL_PT_gpencil_slots ==
    /\ Shown("MATERIAL_PT_gpencil_slots")
    /\ Redraw("MATERIAL_PT_gpencil_slots", 0, MATERIAL_PT_gpencil_slots_draw)

\* the material list and the Material Specials menu belong to the slots panel
DrawItem_GPENCIL_UL_matslots ==
    /\ "GPENCIL_UL_matslots" \in Registered
    /\ drawn = "MATERIAL_PT_gpencil_slots"
    /\ \E layout_type \in LayoutTypes, ma \in {None} \cup Materials :
           Redraw("GPENCIL_UL_matslots", 0,
                  GPENCIL_UL_matslots_draw_item(layout_type, ma))

Draw_GPENCIL_MT_material_context_menu ==
    /\ "GPENCIL_MT_material_context_menu" \in Registered
    /\ drawn = "MATERIAL_PT_gpencil_slots"
    /\ Redraw("GPENCIL_MT_material_context_menu", 0,
              GPENCIL_MT_material_context_menu_draw)

Draw_MATERIAL_PT_gpencil_surface ==
    /\ Shown("MATERIAL_PT_gpencil_surface")
    /\ Redraw("MATERIAL_PT_gpencil_surface", 0, MATERIAL_PT_gpencil_surface_draw)

DrawHeaderPreset_MATERIAL_PT_gpencil_surface ==
    /\ Shown("MATERIAL_PT_gpencil_surface")
    /\ Redraw("MATERIAL_PT_gpencil_surface.draw_header_preset", 0,
              MATERIAL_PT_gpencil_surface_draw_header_preset)

\* the presets popover opens from the Surface panel's header
Draw_MATERIAL_PT_gpencil_material_presets ==
    /\ "MATERIAL_PT_gpencil_material_presets" \in Registered
    /\ drawn = "MATERIAL_PT_gpencil_surface.draw_header_preset"
    /\ Redraw("MATERIAL_PT_gpencil_material_presets", 0,
              <<Template("inherited", NoData, "PresetPanel", "")>>)

DrawHeader_MATERIAL_PT_gpencil_strokecolor ==
    /\ Shown("MATERIAL_PT_gpencil_strokecolor")
    /\ Redraw("MATERIAL_PT_gpencil_strokecolor.draw_header", 0,
              MATERIAL_PT_gpencil_strokecolor_draw_header)

Draw_MATERIAL_PT_gpencil_strokecolor ==
    /\ Shown("MATERIAL_PT_gpencil_strokecolor")
    /\ Redraw("MATERIAL_PT_gpencil_strokecolor", 0,
              MATERIAL_PT_gpencil_strokecolor_draw)

Draw_MATERIAL_PT_gpencil_strokecolor_default ==
    /\ Shown("MATERIAL_PT_gpencil_strokecolor_default")
    /\ Redraw("MATERIAL_PT_gpencil_strokecolor_default", 0,
              MATERIAL_PT_gpencil_strokecolor_default_draw)

\* a palette panel opens as the popover a Stroke or Fill layout offers
Draw_ColorPalettePanel ==
    \E cls \in PalettePanels :
        /\ cls \in Registered
        /\ Offers("popover", cls)
        /\ Redraw(cls, set_shaded_color_palette_width(bl_ui_units_x),
                  ColorPalettePanel_draw(PaletteTarget(cls)))

DrawHeader_MATERIAL_PT_gpencil_fillcolor ==
    /\ Shown("MATERIAL_PT_gpencil_fillcolor")
    /\ Redraw("MATERIAL_PT_gpencil_fillcolor.draw_header", 0,
              MATERIAL_PT_gpencil_fillcolor_draw_header)

Draw_MATERIAL_PT_gpencil_fillcolor ==
    /\ Shown("MATERIAL_PT_gpencil_fillcolor")
    /\ Redraw("MATERIAL_PT_gpencil_fillcolor", 0,
              MATERIAL_PT_gpencil_fillcolor_draw)

Draw_MATERIAL_PT_gpencil_fillcolor_ondine ==
    /\ Shown("MATERIAL_PT_gpencil_fillcolor_ondine")
    /\ Redraw("MATERIAL_PT_gpencil_fillcolor_ondine", 0,
              MATERIAL_PT_gpencil_fillcolor_ondine_draw)

Draw_MATERIAL_PT_gpencil_fillcolor_default ==
    /\ Shown("MATERIAL_PT_gpencil_fillcolor_default")
    /\ Redraw("MATERIAL_PT_gpencil_fillcolor_default", 0,
              MATERIAL_PT_gpencil_fillcolor_default_draw)

Draw_MATERIAL_PT_gpencil_preview ==
    /\ Shown("MATERIAL_PT_gpencil_preview")
    /\ Redraw("MATERIAL_PT_gpencil_preview", 0, MATERIAL_PT_gpencil_preview_draw)

Draw_MATERIAL_PT_gpencil_settings ==
    /\ Shown("MATERIAL_PT_gpencil_settings")
    /\ Redraw("MATERIAL_PT_gpencil_settings", 0,
              MATERIAL_PT_gpencil_settings_draw)

Draw_MaterialMixinPanel ==
    \E cls \in MaterialMixinPanels :
        /\ Shown(cls)
        /\ Redraw(cls, 0, MaterialMixin_draw(cls))

\* ------------------------------------------------------- the environment
\* A change of the context or of the data tags the editor for redraw: the
\* layout built before belongs to the state before and is dropped.
Invalidate == layout' = NoLayout /\ drawn' = "none" /\ error' = FALSE

\* the host hands the panels another context (selection, pinning)
SetContext ==
    /\ \E ob \in {None} \cup Objects :
           object' = ob
    /\ \E g \in (IF space = "PROPERTIES.data" THEN {None, "gpd"} ELSE {None}) :
           gpencil' = g
    /\ \E g \in (IF space = "VIEW_3D" THEN {None, "gp3", "gp3_other"} ELSE {None}) :
           grease_pencil' = g
    /\ \E ma \in (IF space = "PROPERTIES.material" THEN {None} \cup Materials ELSE {None}) :
           material' = ma
    /\ \E ob \in (IF space = "PROPERTIES.data" THEN {None, "ob_gpencil"} ELSE {None}) :
           active_object' = ob
    /\ Invalidate
    /\ UNCHANGED <<space, model, reg>>

\* layer operators: the number of layers and the active one
EditLayers ==
    /\ space = "PROPERTIES.data"
    /\ \E n \in 0..MaxLayers, a \in 0..MaxLayers :
           /\ a <= n
           /\ gpd' = [gpd EXCEPT !.layers = n, !.active = a]
    /\ Invalidate
    /\ UNCHANGED <<space, ctx, gp3, gpcolor, paint, legacy_ob, reg>>

OrderNrs == {1, 2}
RECURSIVE SeqsUpTo(_, _)
SeqsUpTo(S, n) ==
    IF n = 0 THEN {<<>>}
    ELSE LET shorter == SeqsUpTo(S, n - 1)
         IN  shorter \cup {Append(q, x) : q \in shorter, x \in S}

\* morph target operators: the targets' order_nr and the active one
EditMorphTargets ==
    /\ space \in {"VIEW_3D", "PROPERTIES.data"}
    /\ \E targets \in SeqsUpTo(OrderNrs, MaxTargets), a \in 0..MaxTargets :
           /\ a <= Len(targets)
           /\ gpd' = [gpd EXCEPT !.morph_targets = targets, !.morph_active = a]
    /\ Invalidate
    /\ UNCHANGED <<space, ctx, gp3, gpcolor, paint, legacy_ob, reg>>

\* shape key operators: the number of shape keys
EditShapeKeys ==
    /\ space = "VIEW_3D"
    /\ \E n \in 0..MaxKeys : gp3' = [gp3 EXCEPT !.shape_keys = n]
    /\ Invalidate
    /\ UNCHANGED <<space, ctx, gpd, gpcolor, paint, legacy_ob, reg>>

FillStyles == {"SOLID", "GRADIENT", "TEXTURE"}
GradientTypes == {"LINEAR", "RADIAL"}

\* the material's fill settings, edited through the properties the panels show
EditMaterial ==
    /\ space = "PROPERTIES.material"
    /\ \E fs \in FillStyles, gt \in GradientTypes, lock \in BOOLEAN :
           gpcolor' = [gpcolor EXCEPT !.fill_style = fs, !.gradient_type = gt,
                                      !.lock = lock]
    /\ Invalidate
    /\ UNCHANGED <<space, ctx, gpd, gp3, paint, legacy_ob, reg>>

\* ------------------------------------------------------ specifications
InitData ==
    /\ gpd = [layers |-> 0, active |-> 0, morph_targets |-> <<>>, morph_active |-> 0,
              in_morph_edit_mode |-> FALSE, morphed_layer_order |-> FALSE,
              watercolor |-> FALSE, stroke_dryness |-> 0, onion_mode |-> "ABSOLUTE",
              users |-> 1, use_ghost_custom_colors |-> FALSE,
              stroke_thickness_space |-> "WORLDSPACE"]
    /\ gp3 = [shape_keys |-> 0]
    /\ gpcolor = [lock |-> FALSE, ghost |-> FALSE, stroke_style |-> "SOLID",
                  mode |-> "LINE", fill_style |-> "SOLID", gradient_type |-> "LINEAR"]
    /\ paint = [palette |-> FALSE, shader_count |-> 0]
    /\ legacy_ob = [vertex_groups |-> 1, vg_active |-> 1, show_in_front |-> FALSE]

InitContext ==
    /\ object = None /\ gpencil = None /\ grease_pencil = None /\ material = None
    /\ active_object = None

InitUI == layout = NoLayout /\ drawn = "none" /\ error = FALSE

\* every module registered; the editor is any of the three
Init ==
    /\ space \in Spaces
    /\ InitContext /\ InitData /\ InitUI
    /\ reg = [m \in Modules |-> Len(classes(m))]

DrawStep ==
    \/ Draw_GPENCIL_PT_MorphTargetsNPanel
    \/ Draw_GREASE_PENCIL_PT_ShapeKeysNPanel
    \/ Draw_DATA_PT_context_gpencil
    \/ Draw_DATA_PT_gpencil_layers
    \/ Draw_GPENCIL_MT_layer_context_menu
    \/ Draw_DATA_PT_gpencil_layer_default_render
    \/ Draw_LayerMixinPanel
    \/ Draw_DATA_PT_gpencil_onion_skinning
    \/ DrawHeader_DATA_PT_gpencil_onion_skinning_custom_colors
    \/ Draw_DATA_PT_gpencil_onion_skinning_custom_colors
    \/ Draw_DATA_PT_gpencil_onion_skinning_display
    \/ Draw_GPENCIL_MT_gpencil_vertex_group
    \/ Draw_DATA_PT_gpencil_vertex_groups
    \/ DrawItem_GPENCIL_UL_vgroups
    \/ Draw_DATA_PT_gpencil_morph_targets
    \/ Draw_DATA_MT_morph_targets_context_menu
    \/ Draw_DATA_PT_gpencil_strokes
    \/ Draw_DATA_PT_gpencil_display
    \/ Draw_DATA_PT_gpencil_canvas
    \/ Draw_DATA_PT_custom_props_gpencil
    \/ Draw_MATERIAL_PT_gpencil_slots
    \/ DrawItem_GPENCIL_UL_matslots
    \/ Draw_GPENCIL_MT_material_context_menu
    \/ Draw_MATERIAL_PT_gpencil_surface
    \/ DrawHeaderPreset_MATERIAL_PT_gpencil_surface
    \/ Draw_MATERIAL_PT_gpencil_material_presets
    \/ DrawHeader_MATERIAL_PT_gpencil_strokecolor
    \/ Draw_MATERIAL_PT_gpencil_strokecolor
    \/ Draw_MATERIAL_PT_gpencil_strokecolor_default
    \/ Draw_ColorPalettePanel
    \/ DrawHeader_MATERIAL_PT_gpencil_fillcolor
    \/ Draw_MATERIAL_PT_gpencil_fillcolor
    \/ Draw_MATERIAL_PT_gpencil_fillcolor_ondine
    \/ Draw_MATERIAL_PT_gpencil_fillcolor_default
    \/ Draw_MATERIAL_PT_gpencil_preview
    \/ Draw_MATERIAL_PT_gpencil_settings
    \/ Draw_MaterialMixinPanel

Edit ==
    \/ SetContext
    \/ EditLayers
    \/ EditMorphTargets
    \/ EditShapeKeys
    \/ EditMaterial

Next == DrawStep \/ Edit

Spec == Init /\ [][Next]_vars

\* registration: for cls in classes: register_class(cls), the modules in any
\* interleaving
InitRegister ==
    /\ space = "VIEW_3D"
    /\ InitContext /\ InitData /\ InitUI
    /\ reg = [m \in Modules |-> 0]

NextRegister == \E m \in Modules : register_class(m)

SpecRegister == InitRegister /\ [][NextRegister]_vars

\* The data tab of one legacy object with its data-block and an active layer:
\* the settings the data panels branch on change, the context does not.
OnionModes == {"ABSOLUTE", "RELATIVE", "SELECTED"}

\* gpd.onion_mode and gpd.users, edited through the Onion Skinning panel
EditOnion ==
    /\ \E mode \in OnionModes, users \in {1, 2} :
           gpd' = [gpd EXCEPT !.onion_mode = mode, !.users = users]
    /\ Invalidate
    /\ UNCHANGED <<space, ctx, gp3, gpcolor, paint, legacy_ob, reg>>

\* gpd.watercolor and the active layer's stroke_dryness (0: wet)
EditWatercolor ==
    /\ \E on \in BOOLEAN, dryness \in {0, 1} :
           gpd' = [gpd EXCEPT !.watercolor = on, !.stroke_dryness = dryness]
    /\ Invalidate
    /\ UNCHANGED <<space, ctx, gp3, gpcolor, paint, legacy_ob, reg>>

\* gpencil.morph_target_edit and gpencil.morph_target_edit_finish: entering
\* and leaving morph edit mode
EditMorphEditMode ==
    /\ gpd' = [gpd EXCEPT !.in_morph_edit_mode = ~gpd.in_morph_edit_mode]
    /\ Invalidate
    /\ UNCHANGED <<space, ctx, gp3, gpcolor, paint, legacy_ob, reg>>

InitSettings ==
    /\ space = "PROPERTIES.data"
    /\ object = "ob_gpencil" /\ gpencil = "gpd" /\ grease_pencil = None
    /\ material = None /\ active_object = "ob_gpencil"
    /\ gpd = [layers |-> MaxLayers, active |-> 1, morph_targets |-> <<>>,
              morph_active |-> 0, in_morph_edit_mode |-> FALSE,
              morphed_layer_order |-> FALSE, watercolor |-> FALSE,
              stroke_dryness |-> 0, onion_mode |-> "ABSOLUTE", users |-> 1,
              use_ghost_custom_colors |-> FALSE,
              stroke_thickness_space |-> "WORLDSPACE"]
    /\ gp3 = [shape_keys |-> 0]
    /\ gpcolor = [lock |-> FALSE, ghost |-> FALSE, stroke_style |-> "SOLID",
                  mode |-> "LINE", fill_style |-> "SOLID", gradient_type |-> "LINEAR"]
    /\ paint = [palette |-> FALSE, shader_count |-> 0]
    /\ legacy_ob = [vertex_groups |-> 1, vg_active |-> 1, show_in_front |-> FALSE]
    /\ InitUI
    /\ reg = [m \in Modules |-> Len(classes(m))]

NextSettings ==
    \/ EditOnion
    \/ EditWatercolor
    \/ EditMorphTargets
    \/ EditMorphEditMode
    \/ Draw_DATA_PT_gpencil_layers
    \/ Draw_DATA_PT_gpencil_onion_skinning
    \/ Draw_DATA_PT_gpencil_onion_skinning_display
    \/ Draw_DATA_PT_gpencil_morph_targets

SpecSettings == InitSettings /\ [][NextSettings]_vars

\* The material tab of one Grease Pencil material: the paint palette and the
\* material's fill settings change, the context does not.
\* paint.palette (FALSE: None) and palette.shader_count
EditPalette ==
    /\ \E n \in 0..MaxShaders, has \in BOOLEAN :
           paint' = [palette |-> has, shader_count |-> IF has THEN n ELSE 0]
    /\ Invalidate
    /\ UNCHANGED <<space, ctx, gpd, gp3, gpcolor, legacy_ob, reg>>

InitPalette ==
    /\ space = "PROPERTIES.material"
    /\ object = None /\ gpencil = None /\ grease_pencil = None
    /\ material = "ma_gp" /\ active_object = None
    /\ InitData /\ InitUI
    /\ reg = [m \in Modules |-> Len(classes(m))]

NextPalette ==
    \/ EditPalette
    \/ EditMaterial
    \/ Draw_MATERIAL_PT_gpencil_strokecolor
    \/ Draw_MATERIAL_PT_gpencil_fillcolor
    \/ Draw_MATERIAL_PT_gpencil_fillcolor_default
    \/ Draw_ColorPalettePanel

SpecPalette == InitPalette /\ [][NextPalette]_vars


\* ------------------------------------------------------------------ claims
HasGreasePencilSettings == material # None /\ MaterialGreasePencil(material) # None

\* the panel classes (not the menus and lists), and the names their
\* draw_header / draw_header_preset runs are recorded under
PanelClasses ==
    AllClasses \ {"GPENCIL_UL_vgroups", "GPENCIL_MT_layer_context_menu",
                  "GPENCIL_MT_gpencil_vertex_group", "DATA_MT_morph_targets_context_menu",
                  "GPENCIL_UL_matslots", "GPENCIL_MT_material_context_menu"}
PanelHeaders == {"DATA_PT_gpencil_onion_skinning_custom_colors.draw_header",
                 "MATERIAL_PT_gpencil_surface.draw_header_preset",
                 "MATERIAL_PT_gpencil_strokecolor.draw_header",
                 "MATERIAL_PT_gpencil_fillcolor.draw_header"}

\* C1: the Morph Targets N-panel's poll returns True exactly when
\* context.object is not None, its type is 'GPENCIL' and its data-block has at
\* least one morph target, and False otherwise; the panel is never drawn
\* while no morph target exists.
C1_MorphTargetsNPanelPoll ==
    /\ GPENCIL_PT_MorphTargetsNPanel_poll =
           PyBool(/\ object # None
                  /\ ObjectType(object) = "GPENCIL"
                  /\ ObjectData(object) = "gpd"
                  /\ Len(gpd.morph_targets) > 0)
    /\ drawn = "GPENCIL_PT_MorphTargetsNPanel" => Len(gpd.morph_targets) > 0

C1_Witness ==
    /\ drawn = "GPENCIL_PT_MorphTargetsNPanel"
    /\ GPENCIL_PT_MorphTargetsNPanel_poll = "True"

\* C2: each of the six layer sub-panels' poll is truthy exactly when
\* context.gpencil and its active layer are both present, so none of their
\* draws runs without an active layer (nor raises for want of one).
C2_LayerPanelsNeedActiveLayer ==
    /\ \A cls \in LayerPanels :
           Truthy(poll(cls)) <=> (gpencil # None /\ gpd.active # 0)
    /\ drawn \in LayerPanels => (gpencil # None /\ gpd.active # 0 /\ ~error)

C2_Witness ==
    /\ drawn = "DATA_PT_gpencil_layer_default_render"
    /\ gpd.active # 0
    /\ Len(layout.items) > 0

\* C3: no draw or draw_header of a panel whose poll is truthy raises: every
\* run of a panel's draw ends without reading an attribute of None.
C3_NoPanelDrawRaises ==
    drawn \in PanelClasses \cup PanelHeaders => ~error

\* C4: whenever the Layers panel offers the Layer Specials menu, the menu's
\* draw finds context.object, its data and its active layer, and so does not
\* raise.
C4_LayerMenuFindsObject ==
    /\ (drawn = "DATA_PT_gpencil_layers"
        /\ Offers("menu", "GPENCIL_MT_layer_context_menu"))
       => (object # None /\ ObjectData(object) = "gpd" /\ ActiveLayer # None)
    /\ drawn = "GPENCIL_MT_layer_context_menu" => ~error

\* C5: a redraw (any draw, draw_header or draw_item) writes the widget tree
\* only: every step that builds a layout leaves the data-blocks, the material
\* settings, the tool settings and the object unchanged.
C5_DrawsLeaveModelUnchanged ==
    [][drawn' # "none" => model' = model]_vars

C5_Witness ==
    /\ drawn = "DATA_PT_gpencil_layers"
    /\ gpd.layers > 0
    /\ Len(layout.items) > 1

\* the classes a class descends from by bl_parent_id, at most n levels up
RECURSIVE Ancestors(_, _)
Ancestors(cls, n) ==
    IF n = 0 \/ bl_parent_id(cls) = "" THEN {}
    ELSE LET parents == {p \in AllClasses : bl_idname(p) = bl_parent_id(cls)}
         IN  parents \cup UNION {Ancestors(p, n - 1) : p \in parents}

\* C7: a class with bl_parent_id names a class of its module's tuple that
\* stands earlier in it, so at every point of the registration a registered
\* child's parent is registered; the parent relation has no cycle.
C7_ParentsRegisteredFirst ==
    /\ \A cls \in Registered :
           bl_parent_id(cls) # ""
           => \E p \in Registered : bl_idname(p) = bl_parent_id(cls)
    /\ \A m \in Modules : \A i \in 1..Len(classes(m)) :
           bl_parent_id(classes(m)[i]) # ""
           => \E j \in 1..(i - 1) : bl_idname(classes(m)[j]) = bl_parent_id(classes(m)[i])
    /\ \A cls \in AllClasses : cls \notin Ancestors(cls, Cardinality(AllClasses))

C7_Witness ==
    /\ "DATA_PT_gpencil_layer_masks" \in Registered
    /\ "DATA_PT_gpencil_canvas" \notin Registered
    /\ "MATERIAL_PT_gpencil_strokecolor_default" \in Registered

\* C8: the Shape Keys N-panel's poll returns True exactly when context.object
\* is not None, its type is 'GREASEPENCIL' and its data has at least one
\* shape key.
C8_ShapeKeysNPanelPoll ==
    GREASE_PENCIL_PT_ShapeKeysNPanel_poll =
        PyBool(/\ object # None
               /\ ObjectType(object) = "GREASEPENCIL"
               /\ ShapeKeyCount(ObjectData(object)) > 0)

C8_Witness ==
    /\ GREASE_PENCIL_PT_ShapeKeysNPanel_poll = "True"
    /\ drawn = "GREASE_PENCIL_PT_ShapeKeysNPanel"

\* C9: whenever the Shape Keys N-panel is drawn, the draw does not raise, the
\* data-block it reads (context.grease_pencil) is the one poll counted
\* (context.object.data), and it builds one value slider and one mute toggle
\* per shape key of that data-block, in collection order, at least one row.
C9_ShapeKeysNPanelDrawsPolledKeys ==
    drawn = "GREASE_PENCIL_PT_ShapeKeysNPanel"
    => /\ ~error
       /\ grease_pencil = ObjectData(object)
       /\ ShapeKeyCount(ObjectData(object)) >= 1
       /\ layout.items =
              Concat([i \in 1..ShapeKeyCount(ObjectData(object))
                          |-> ShapeKeyRow(ObjectData(object), i)]) \o <<Separator>>

\* C10: the material slots panel's poll is truthy exactly when the context
\* material has Grease Pencil settings or the context object has type
\* 'GREASEPENCIL'; every panel that polls through GPMaterialButtonsPanel (and
\* the Ondine Render panel) is pollable only when the context material has
\* Grease Pencil settings.
C10_MaterialPanelPolls ==
    /\ Truthy(MATERIAL_PT_gpencil_slots_poll)
           <=> \/ HasGreasePencilSettings
               \/ (object # None /\ ObjectType(object) = "GREASEPENCIL")
    /\ \A cls \in {"MATERIAL_PT_gpencil_surface", "MATERIAL_PT_gpencil_strokecolor",
                   "MATERIAL_PT_gpencil_strokecolor_default",
                   "MATERIAL_PT_gpencil_fillcolor", "MATERIAL_PT_gpencil_fillcolor_ondine",
                   "MATERIAL_PT_gpencil_fillcolor_default",
                   "MATERIAL_PT_gpencil_animation", "MATERIAL_PT_gpencil_preview",
                   "MATERIAL_PT_gpencil_custom_props", "MATERIAL_PT_gpencil_settings"} :
           Truthy(poll(cls)) => HasGreasePencilSettings
    /\ drawn = "MATERIAL_PT_gpencil_slots"
           => \/ HasGreasePencilSettings
              \/ (object # None /\ ObjectType(object) = "GREASEPENCIL")

C10_Witness ==
    /\ drawn = "MATERIAL_PT_gpencil_slots"
    /\ material = None
    /\ object = "ob_greasepencil"

\* how often the layout built last holds a property of that name, and an item
\* of that name and text
CountProp(name) ==
    Cardinality({i \in 1..Len(layout.items) :
                     layout.items[i].kind = "prop" /\ layout.items[i].name = name})
CountItems(name, text) ==
    Cardinality({i \in 1..Len(layout.items) :
                     layout.items[i].name = name /\ layout.items[i].text = text})

\* C11: the Onion Skinning panel draws the ghost_before_range /
\* ghost_after_range pair once, labelled 'Frames Before'/'Frames After' for
\* onion_mode 'ABSOLUTE' and 'Keyframes Before'/'Keyframes After' for
\* 'RELATIVE', and not at all for another mode; the Display panel's 'Show
\* Start Frame' is active exactly for 'RELATIVE' and 'SELECTED'.
C11_OnionRangeFollowsMode ==
    /\ (drawn = "DATA_PT_gpencil_onion_skinning" /\ ~error)
       => /\ gpd.onion_mode = "ABSOLUTE"
                => /\ CountItems("ghost_before_range", "Frames Before") = 1
                   /\ CountItems("ghost_after_range", "Frames After") = 1
                   /\ CountProp("ghost_before_range") = 1
                   /\ CountProp("ghost_after_range") = 1
          /\ gpd.onion_mode = "RELATIVE"
                => /\ CountItems("ghost_before_range", "Keyframes Before") = 1
                   /\ CountItems("ghost_after_range", "Keyframes After") = 1
                   /\ CountProp("ghost_before_range") = 1
                   /\ CountProp("ghost_after_range") = 1
          /\ gpd.onion_mode \notin {"ABSOLUTE", "RELATIVE"}
                => /\ CountProp("ghost_before_range") = 0
                   /\ CountProp("ghost_after_range") = 0
    /\ (drawn = "DATA_PT_gpencil_onion_skinning_display" /\ ~error)
       => /\ CountItems("use_onion_loop", "Show Start Frame") = 1
          /\ \A i \in 1..Len(layout.items) :
                 layout.items[i].name = "use_onion_loop"
                 => (layout.items[i].active
                        <=> gpd.onion_mode \in {"RELATIVE", "SELECTED"})

C11_Witness ==
    /\ drawn = "DATA_PT_gpencil_onion_skinning"
    /\ gpd.onion_mode = "RELATIVE"
    /\ CountItems("ghost_before_range", "Keyframes Before") = 1

\* C12: for each fill_style the base colour fill_color is drawn once over
\* the Fill panel and its Default Render sub-panel together (by Fill for
\* 'SOLID' and 'GRADIENT', by Default Render for 'TEXTURE'); mix_color,
\* gradient_type and flip are drawn exactly for 'GRADIENT'; use_fill_holdout
\* is drawn once for each style.
C12_FillStyleSelectsFields ==
    LET One(c) == IF c THEN 1 ELSE 0
        gradient == gpcolor.fill_style = "GRADIENT"
    IN  /\ (drawn = "MATERIAL_PT_gpencil_fillcolor" /\ ~error)
           => /\ gpcolor.fill_style \in FillStyles
              /\ CountProp("fill_color") =
                     One(gpcolor.fill_style \in {"SOLID", "GRADIENT"})
              /\ CountProp("mix_color") = One(gradient)
              /\ CountProp("gradient_type") = One(gradient)
              /\ CountProp("flip") = One(gradient)
              /\ CountProp("use_fill_holdout") = 0
        /\ (drawn = "MATERIAL_PT_gpencil_fillcolor_default" /\ ~error)
           => /\ CountProp("fill_color") = One(gpcolor.fill_style = "TEXTURE")
              /\ CountProp("mix_color") = 0
              /\ CountProp("gradient_type") = 0
              /\ CountProp("flip") = 0
              /\ CountProp("use_fill_holdout") = 1

C12_Witness ==
    /\ drawn = "MATERIAL_PT_gpencil_fillcolor_default"
    /\ gpcolor.fill_style = "TEXTURE"
    /\ CountProp("fill_color") = 1

\* C13: the Ondine Render fill sub-panel is pollable exactly when the context
\* material has Grease Pencil settings and fill_style is 'GRADIENT'; when
\* drawn its layout is not empty: rotation and the gradient offsets of index
\* 0 and 1 for gradient_type 'LINEAR', the offset and the scale for any other
\* type; every item is enabled exactly when the material is not locked.
C13_OndinePanelFollowsGradient ==
    /\ MATERIAL_PT_gpencil_fillcolor_ondine_poll =
           PyBool(HasGreasePencilSettings /\ gpcolor.fill_style = "GRADIENT")
    /\ drawn = "MATERIAL_PT_gpencil_fillcolor_ondine"
       => /\ ~error
          /\ Len(layout.items) > 0
          /\ gpcolor.gradient_type = "LINEAR"
                => /\ Len(layout.items) = 3
                   /\ CountItems("texture_angle", "Rotation") = 1
                   /\ \E i, j \in 1..Len(layout.items) :
                          /\ layout.items[i].name = "ondine_gradient_offset"
                          /\ layout.items[i].arg = "index=0"
                          /\ layout.items[j].name = "ondine_gradient_offset"
                          /\ layout.items[j].arg = "index=1"
          /\ gpcolor.gradient_type # "LINEAR"
                => /\ Len(layout.items) = 2
                   /\ CountItems("ondine_gradient_offset", "Offset") = 1
                   /\ CountItems("ondine_gradient_scale", "Scale") = 1
          /\ \A i \in 1..Len(layout.items) :
                 layout.items[i].enabled <=> ~gpcolor.lock

C13_Witness ==
    /\ drawn = "MATERIAL_PT_gpencil_fillcolor_ondine"
    /\ gpcolor.gradient_type = "RADIAL"
    /\ gpcolor.lock
    /\ Len(layout.items) = 2

\* does the layout built last hold such an item?
HasItem(kind, name, arg) ==
    \E i \in 1..Len(layout.items) :
        /\ layout.items[i].kind = kind
        /\ layout.items[i].name = name
        /\ layout.items[i].arg = arg

\* C14: without a data-block or without layers the Layers panel offers the
\* 'New Layer' operator and nothing else; with layers it offers layer add and
\* layer remove, the Layer Specials menu exactly when a layer is active, and
\* layer move UP/DOWN and the two isolate buttons exactly when a layer is
\* active and there is more than one layer.
C14_LayersPanelOperators ==
    LET several == gpd.active # 0 /\ gpd.layers > 1
    IN  /\ (gpencil = None \/ gpd.layers = 0)
           => DATA_PT_gpencil_layers_draw =
                  <<Operator("gpencil.layer_add", "New Layer", "")>>
        /\ (drawn = "DATA_PT_gpencil_layers" /\ gpd.layers = 0)
           => layout.items = <<Operator("gpencil.layer_add", "New Layer", "")>>
        /\ (drawn = "DATA_PT_gpencil_layers" /\ gpd.layers > 0)
           => /\ HasItem("operator", "gpencil.layer_add", "")
              /\ HasItem("operator", "gpencil.layer_remove", "")
              /\ HasItem("menu", "GPENCIL_MT_layer_context_menu", "") <=> gpd.active # 0
              /\ HasItem("operator", "gpencil.layer_move", "type=UP") <=> several
              /\ HasItem("operator", "gpencil.layer_move", "type=DOWN") <=> several
              /\ HasItem("operator", "gpencil.layer_isolate", "affect_visibility=True")
                     <=> several
              /\ HasItem("operator", "gpencil.layer_isolate", "affect_visibility=False")
                     <=> several

C14_Witness ==
    /\ drawn = "DATA_PT_gpencil_layers"
    /\ gpd.layers = 1
    /\ gpd.active = 1
    /\ HasItem("menu", "GPENCIL_MT_layer_context_menu", "")
    /\ ~HasItem("operator", "gpencil.layer_move", "type=UP")

\* C15: the Morph Targets N-panel draws one value slider and one mute
\* toggle per morph target: the rows are a permutation of gpd.morph_targets,
\* in ascending order_nr, targets of equal order_nr in collection order.
C15_MorphTargetsDrawnInOrder ==
    (drawn = "GPENCIL_PT_MorphTargetsNPanel" /\ ~error)
    => LET n == Len(gpd.morph_targets)
           Row(k) == layout.items[2 * k - 1].data[3]
       IN  /\ Len(layout.items) = 2 * n + 1
           /\ \A k \in 1..n :
                  /\ layout.items[2 * k - 1] = Prop(MorphTarget(Row(k)), "value", "name")
                  /\ layout.items[2 * k] = Prop(MorphTarget(Row(k)), "mute", "")
           /\ {Row(k) : k \in 1..n} = 1..n
           /\ \A k, l \in 1..n :
                  k < l => \/ gpd.morph_targets[Row(k)] < gpd.morph_targets[Row(l)]
                           \/ /\ gpd.morph_targets[Row(k)] = gpd.morph_targets[Row(l)]
                              /\ Row(k) < Row(l)

C15_Witness ==
    /\ drawn = "GPENCIL_PT_MorphTargetsNPanel"
    /\ gpd.morph_targets = <<2, 1>>
    /\ layout.items[1].data[3] = 2

\* C16: a panel with bl_parent_id is pollable only while its parent is: in
\* every state poll(child) truthy implies poll(parent) truthy.
C16_ChildPollImpliesParentPoll ==
    \A cls \in PanelClasses :
        bl_parent_id(cls) # ""
        => \A p \in PanelClasses :
               (bl_idname(p) = bl_parent_id(cls) /\ Truthy(poll(cls)))
               => Truthy(poll(p))

C16_Witness ==
    /\ drawn = "DATA_PT_gpencil_layer_default_render"
    /\ Truthy(poll("DATA_PT_gpencil_layer_default_render"))
    /\ Truthy(poll("DATA_PT_gpencil_layers"))

\* C17: in no state are the Morph Targets N-panel's poll and the Shape Keys
\* N-panel's poll both True, and in no state where the Shape Keys N-panel's
\* poll is True is the Vertex Groups panel (ObjectButtonsPanel.poll) pollable.
C17_NPanelsExcludeEachOther ==
    /\ ~(/\ Truthy(GPENCIL_PT_MorphTargetsNPanel_poll)
          /\ Truthy(GREASE_PENCIL_PT_ShapeKeysNPanel_poll))
    /\ ~(/\ Truthy(poll("DATA_PT_gpencil_vertex_groups"))
          /\ Truthy(GREASE_PENCIL_PT_ShapeKeysNPanel_poll))

C17_Witness ==
    /\ drawn = "GREASE_PENCIL_PT_ShapeKeysNPanel"
    /\ Truthy(GREASE_PENCIL_PT_ShapeKeysNPanel_poll)
    /\ Len(gpd.morph_targets) > 0
    /\ ~Truthy(GPENCIL_PT_MorphTargetsNPanel_poll)

\* C18: in the Morph Targets properties panel with an active morph target,
\* 'Edit' is active exactly when not in morph edit mode and 'Finish Edit' is
\* active, and drawn depressed, exactly when in it, so exactly one of the two
\* is active however often edit mode was entered and left; the note is drawn
\* exactly in edit mode.  Without an active morph target neither button, the
\* move buttons nor the value and range fields are drawn; add, remove and the
\* context menu are always drawn.
C18_MorphEditButtons ==
    (drawn = "DATA_PT_gpencil_morph_targets" /\ ~error)
    => LET editing == gpd.in_morph_edit_mode
           Items(name) == {i \in 1..Len(layout.items) : layout.items[i].name = name}
           edit == Items("gpencil.morph_target_edit")
           finish == Items("gpencil.morph_target_edit_finish")
           note == {i \in 1..Len(layout.items) :
                        layout.items[i].kind = "label" /\ layout.items[i].text # ""}
       IN  /\ HasItem("operator", "gpencil.morph_target_add", "")
           /\ HasItem("operator", "gpencil.morph_target_remove", "")
           /\ HasItem("menu", "DATA_MT_morph_targets_context_menu", "")
           /\ ActiveMorphTarget # None
                 => /\ Cardinality(edit) = 1 /\ Cardinality(finish) = 1
                    /\ \A i \in edit : layout.items[i].active <=> ~editing
                    /\ \A i \in finish :
                           /\ layout.items[i].active <=> editing
                           /\ layout.items[i].arg = "depress=True" <=> editing
                    /\ \A i \in edit, j \in finish :
                           layout.items[i].active # layout.items[j].active
                    /\ Cardinality(note) = (IF editing THEN 1 ELSE 0)
                    /\ Items("gpencil.morph_target_move") # {}
           /\ ActiveMorphTarget = None
                 => /\ edit = {} /\ finish = {} /\ note = {}
                    /\ Items("gpencil.morph_target_move") = {}
                    /\ Items("value") = {}
                    /\ Items("slider_min") = {} /\ Items("slider_max") = {}

C18_Witness ==
    /\ drawn = "DATA_PT_gpencil_morph_targets"
    /\ ActiveMorphTarget # None
    /\ gpd.in_morph_edit_mode
    /\ HasItem("operator", "gpencil.morph_target_edit_finish", "depress=True")

\* C19: in the Layers panel with an active layer the opacity slider is drawn
\* once with watercolor on or off; blend_mode and use_lights are drawn exactly
\* with watercolor off, the watercolor properties exactly with it on; there
\* scale_pigment_flow, is_wetted and stroke_wetness are enabled exactly when
\* stroke_dryness is 0, and stroke_dryness is always enabled.
C19_WatercolorLayerProperties ==
    (drawn = "DATA_PT_gpencil_layers" /\ ~error /\ ActiveLayer # None)
    => LET One(c) == IF c THEN 1 ELSE 0
           on == gpd.watercolor
           Enabled(name) == \A i \in 1..Len(layout.items) :
                                layout.items[i].name = name => layout.items[i].enabled
       IN  /\ CountProp("opacity") = 1
           /\ CountProp("blend_mode") = One(~on)
           /\ CountProp("use_lights") = One(~on)
           /\ \A name \in {"clear_underlying", "mix_with_underlying",
                            "limit_to_underlying", "gouache_style",
                            "scale_pigment_flow", "is_wetted",
                            "watercolor_alpha_variation", "watercolor_color_variation",
                            "stroke_wetness", "stroke_dryness"} :
                  CountProp(name) = One(on)
           /\ on => /\ \A name \in {"scale_pigment_flow", "is_wetted", "stroke_wetness"} :
                           Enabled(name) <=> gpd.stroke_dryness = 0
                    /\ Enabled("stroke_dryness")

C19_Witness ==
    /\ drawn = "DATA_PT_gpencil_layers"
    /\ ActiveLayer # None
    /\ gpd.watercolor
    /\ gpd.stroke_dryness # 0
    /\ CountProp("stroke_dryness") = 1

\* C20: a colour-palette popover keeps the class's width when the paint
\* palette is absent or its shader_count is 0; otherwise its width is
\* shader_count from 10 shaders on and twice shader_count for 1 to 9, so never
\* less than shader_count, and 9 shaders give 18 units while 10 give 10.
C20_PaletteWidth ==
    (drawn \in PalettePanels /\ ~error)
    => LET n == paint.shader_count
           width == layout.ui_units_x
       IN  /\ (~paint.palette \/ n = 0) => width = bl_ui_units_x
           /\ (paint.palette /\ n >= 10) => width = n
           /\ (paint.palette /\ n >= 1 /\ n <= 9) => width = 2 * n
           /\ (paint.palette /\ n >= 1) => width >= n
           /\ (paint.palette /\ n = 9) => width = 18
           /\ (paint.palette /\ n = 10) => width = 10

C20_Witness ==
    /\ drawn = "MATERIAL_PT_gpencil_mixcolor_palette"
    /\ paint.palette
    /\ paint.shader_count = 10
    /\ layout.ui_units_x = 10

====
